---- MODULE Spec2Model ----
(***************************************************************************)
(* Connect-4 move-evaluation engine (exercice3/smart_agent.py, SmartAgent) *)
(* together with the callers that hand it boards and action masks          *)
(* (exercice4/test_suite.py).                                              *)
(*                                                                         *)
(* A board is a numpy array of shape (6, 7, 2): board[row, col, channel],  *)
(* row 0 is the top, row 5 the bottom, channel 0 the mover, channel 1 the  *)
(* opponent; written board[row][col][channel] here.  Python names are      *)
(* references to arrays: the model keeps a small heap `mem` from           *)
(* references to arrays so that ndarray.copy() and item assignment are     *)
(* modelled as what they do to memory.                                     *)
(***************************************************************************)
EXTENDS Integers, Sequences, FiniteSets, TLC

VARIABLES board, action_mask, pc, result, rule, drops, calls, probe, tour

vars == <<board, action_mask, pc, result, rule, drops, calls, probe, tour>>

\* ------------------------------------------------------------------ bounds
\* number of env.step() placements the caller makes on top of a start board
MaxDrops == 1
\* number of choose_action calls the caller makes on one board and mask
MaxCalls == 2
\* the calls run_tournament(agents_classes, num_games) looked at, each as
\* <<number of agent classes, num_games>>
TournamentCalls ==
    {<<1, 2>>, <<2, 0>>, <<2, 1>>, <<2, 3>>, <<3, 2>>, <<3, 3>>, <<4, 1>>, <<4, 2>>}

\* ------------------------------------------------------------- constants
NumRows == 6
NumCols == 7
Rows == 0 .. (NumRows - 1)
Cols == 0 .. (NumCols - 1)
Channels == {0, 1}
\* Python's None, for "no row" / "no column"
None == -1

Masks == [Cols -> {0, 1}]

\* ------------------------------------------------------ boards of callers
\* np.zeros((6, 7, 2))
create_empty_board == [r \in Rows |-> [c \in Cols |-> [ch \in Channels |-> 0]]]

\* board[row, col, ch] = 1 for every (row, col, ch) of a setup list
SetCells(b, cells) ==
    [r \in Rows |-> [c \in Cols |-> [ch \in Channels |->
        IF <<r, c, ch>> \in cells THEN 1 ELSE b[r][c][ch]]]]

\* test_F6_board_almost_full / test_scenario_6: columns 0..5 filled in a
\* checkerboard, column 6 empty
AlmostFullBoard ==
    [r \in Rows |-> [c \in Cols |-> [ch \in Channels |->
        IF c < 6 /\ ((r + c) % 2 = 0 <=> ch = 0) THEN 1 ELSE 0]]]

\* test_S2_takes_winning_move, "Horizontal" setup
HorizontalBoard == SetCells(create_empty_board, {<<5, 0, 0>>, <<5, 1, 0>>, <<5, 2, 0>>})

\* test_S2_takes_winning_move, "Vertical" setup
VerticalBoard == SetCells(create_empty_board, {<<5, 3, 0>>, <<4, 3, 0>>, <<3, 3, 0>>})

\* test_S3_blocks_opponent
BlockBoard == SetCells(create_empty_board, {<<5, 0, 1>>, <<5, 1, 1>>, <<5, 2, 1>>})

\* test_scenario_4_diagonal_win
DiagonalBoard ==
    SetCells(create_empty_board,
             {<<5, 0, 0>>, <<4, 1, 0>>, <<3, 2, 0>>,
              <<5, 1, 1>>, <<5, 2, 1>>, <<4, 2, 1>>,
              <<5, 3, 1>>, <<4, 3, 1>>, <<3, 3, 1>>})

\* test_scenario_5_win_priority:  X X X . O O O
WinPriorityBoard ==
    SetCells(create_empty_board,
             {<<5, 0, 0>>, <<5, 1, 0>>, <<5, 2, 0>>,
              <<5, 4, 1>>, <<5, 5, 1>>, <<5, 6, 1>>})

\* test_scenario_7_double_threat
DoubleThreatBoard == SetCells(create_empty_board, {<<5, 1, 0>>, <<5, 2, 0>>, <<4, 2, 0>>})

\* test_P5_worst_case_time, the "complex board"
ComplexBoard ==
    SetCells(create_empty_board,
             {<<5, 0, 0>>, <<5, 1, 1>>, <<5, 2, 0>>, <<5, 3, 1>>,
              <<4, 0, 1>>, <<4, 1, 0>>, <<4, 2, 1>>, <<4, 3, 0>>,
              <<3, 1, 1>>, <<3, 2, 0>>, <<3, 3, 1>>})

StartBoards ==
    {create_empty_board, AlmostFullBoard, HorizontalBoard, VerticalBoard,
     BlockBoard, DiagonalBoard, WinPriorityBoard, DoubleThreatBoard,
     ComplexBoard}

\* a mask written out as the tests write it
MaskOf(bits) == [c \in Cols |-> bits[c + 1]]

\* the masks the tests pass: test_F2_respects_action_mask, the full mask of
\* most tests, and the single-column mask of test_F6 / test_scenario_6
TestMasks ==
    {MaskOf(<<0, 1, 1, 1, 1, 1, 1>>), MaskOf(<<1, 1, 1, 0, 1, 1, 1>>),
     MaskOf(<<0, 0, 0, 1, 0, 0, 0>>), MaskOf(<<1, 0, 0, 0, 0, 0, 1>>),
     MaskOf(<<1, 1, 1, 1, 1, 1, 1>>), MaskOf(<<0, 0, 0, 0, 0, 0, 1>>)}

\* the mask read off the bottom row (row 5) instead of the top row
get_action_mask_bottom_row(b) ==
    [c \in Cols |-> IF b[5][c][0] + b[5][c][1] = 0 THEN 1 ELSE 0]

\* get_action_mask: a column is open iff its top cell (row 0) is empty
get_action_mask(b) ==
    [c \in Cols |-> IF b[0][c][0] + b[0][c][1] = 0 THEN 1 ELSE 0]

\* ----------------------------------------------------------- numpy memory
\* a copy that is only a second name for the same array
ndarray_alias(mem, src, dst) == [ref |-> src, mem |-> mem]

\* board_copy = src.copy(): a fresh array `dst` holding the contents of src
ndarray_copy(mem, src, dst) ==
    [ref |-> dst, mem |-> [mem EXCEPT ![dst] = mem[src]]]

\* the assignment written arr[row, col] = 1: both layers of the cell are set
ndarray_setitem_both(mem, ref, row, col, channel) ==
    [mem EXCEPT ![ref][row][col] = [ch \in {0, 1} |-> 1],
                !.writes = Append(@, [ref |-> ref, row |-> row, col |-> col,
                                      channel |-> channel,
                                      before |-> mem[ref],
                                      after |-> [mem[ref] EXCEPT ![row][col] =
                                                    [ch \in {0, 1} |-> 1]]])]

\* arr[row, col, channel] = 1; the assignment is also entered in the log
\* `writes`, with the array as it was before and as it is after
ndarray_setitem(mem, ref, row, col, channel) ==
    [mem EXCEPT ![ref][row][col][channel] = 1,
                !.writes = Append(@, [ref |-> ref, row |-> row, col |-> col,
                                      channel |-> channel,
                                      before |-> mem[ref],
                                      after |-> [mem[ref] EXCEPT ![row][col][channel] = 1]])]

\* one more call of _check_win_from_position entered in the counter `checks`
check_win_called(mem) == [mem EXCEPT !.checks = @ + 1]

\* --------------------------------------------------- Placement Resolver
RECURSIVE next_row_scan(_, _, _)
next_row_scan(b, col, row) ==
    IF row < 0 THEN None
    ELSE IF b[row][col][0] = 0 /\ b[row][col][1] = 0 THEN row
    ELSE next_row_scan(b, col, row - 1)

\* a full column answered with its top row instead of None
get_next_row_top_when_full(b, col) ==
    IF next_row_scan(b, col, 5) = None THEN 0 ELSE next_row_scan(b, col, 5)

\* a cell taken for empty as soon as the mover's layer is clear
RECURSIVE next_row_scan_mover_layer(_, _, _)
next_row_scan_mover_layer(b, col, row) ==
    IF row < 0 THEN None
    ELSE IF b[row][col][0] = 0 THEN row
    ELSE next_row_scan_mover_layer(b, col, row - 1)

get_next_row_mover_layer(b, col) == next_row_scan_mover_layer(b, col, 5)

\* the scan started one row too high: range(4, -1, -1)
get_next_row_from_4(b, col) == next_row_scan(b, col, 4)

\* _get_next_row: for row in range(5, -1, -1)
get_next_row(b, col) == next_row_scan(b, col, 5)

\* --------------------------------------------------- Alignment Detector
\* the two straight directions only, both diagonals forgotten
directions_straight == << <<0, 1>>, <<1, 0>> >>

directions == << <<0, 1>>, <<1, 0>>, <<-1, 1>>, <<1, 1>> >>

\* one of the two while loops: pieces of `channel` from (r, c) along (dr, dc)
RECURSIVE count_run(_, _, _, _, _, _)
count_run(b, r, c, dr, dc, channel) ==
    IF 0 <= r /\ r < 6 /\ 0 <= c /\ c < 7 /\ b[r][c][channel] = 1
    THEN 1 + count_run(b, r + dr, c + dc, dr, dc, channel)
    ELSE 0

\* the test written `count >= 3`: three in a row already counts as a win
check_win_from_three(b, row, col, channel) ==
    \E i \in 1 .. Len(directions) :
        LET dr == directions[i][1]
            dc == directions[i][2]
            count == 1 + count_run(b, row + dr, col + dc, dr, dc, channel)
                       + count_run(b, row - dr, col - dc, -dr, -dc, channel)
        IN count >= 3

\* the test written `count > 4`: four in a row is not yet a win
check_win_from_five(b, row, col, channel) ==
    \E i \in 1 .. Len(directions) :
        LET dr == directions[i][1]
            dc == directions[i][2]
            count == 1 + count_run(b, row + dr, col + dc, dr, dc, channel)
                       + count_run(b, row - dr, col - dc, -dr, -dc, channel)
        IN count > 4

\* the check made to look first for the piece at (row, col) itself
check_win_reads_cell(b, row, col, channel) ==
    /\ b[row][col][channel] = 1
    /\ \E i \in 1 .. Len(directions) :
          LET dr == directions[i][1]
              dc == directions[i][2]
              count == 1 + count_run(b, row + dr, col + dc, dr, dc, channel)
                         + count_run(b, row - dr, col - dc, -dr, -dc, channel)
          IN count >= 4

\* _check_win_from_position
check_win_from_position(b, row, col, channel) ==
    \E i \in 1 .. Len(directions) :
        LET dr == directions[i][1]
            dc == directions[i][2]
            count == 1 + count_run(b, row + dr, col + dc, dr, dc, channel)
                       + count_run(b, row - dr, col - dc, -dr, -dc, channel)
        IN count >= 4

\* ------------------------------------------------------ Threat Analyzer
RECURSIVE find_winning_move_loop(_, _, _, _, _)
find_winning_move_loop(mem, observation, valid_actions, channel, i) ==
    IF i > Len(valid_actions) THEN [ret |-> None, mem |-> mem]
    ELSE LET col == valid_actions[i]
             row == get_next_row(mem[observation], col)
         IN IF row = None
            THEN find_winning_move_loop(mem, observation, valid_actions, channel, i + 1)
            ELSE LET cp == ndarray_copy(mem, observation, "board_copy")
                     m2 == check_win_called(
                               ndarray_setitem(cp.mem, cp.ref, row, col, channel))
                 IN IF check_win_from_position(m2[cp.ref], row, col, channel)
                    THEN [ret |-> col, mem |-> m2]
                    ELSE find_winning_move_loop(m2, observation, valid_actions, channel, i + 1)

\* the scan started at the second legal column
find_winning_move_skip_first(mem, observation, valid_actions, channel) ==
    find_winning_move_loop(mem, observation, valid_actions, channel, 2)

\* _find_winning_move
find_winning_move(mem, observation, valid_actions, channel) ==
    find_winning_move_loop(mem, observation, valid_actions, channel, 1)

\* the loop `for next_col in range(7)` of _creates_double_threat
RECURSIVE double_threat_loop(_, _, _, _, _)
double_threat_loop(mem, board_copy, channel, next_col, winning_moves) ==
    IF next_col >= 7 THEN [ret |-> FALSE, mem |-> mem]
    ELSE LET next_row == get_next_row(mem[board_copy], next_col)
         IN IF next_row = None
            THEN double_threat_loop(mem, board_copy, channel, next_col + 1, winning_moves)
            ELSE LET cp == ndarray_copy(mem, board_copy, "board_copy2")
                     m2 == check_win_called(
                               ndarray_setitem(cp.mem, cp.ref, next_row, next_col, channel))
                     wm == IF check_win_from_position(m2[cp.ref], next_row, next_col, channel)
                           THEN winning_moves + 1 ELSE winning_moves
                 IN IF wm >= 2 THEN [ret |-> TRUE, mem |-> m2]
                    ELSE double_threat_loop(m2, board_copy, channel, next_col + 1, wm)

\* the hypothetical piece always the mover's: board_copy[row, col, 0] = 1
creates_double_threat_mover_piece(mem, b, col, channel) ==
    LET row == get_next_row(mem[b], col)
    IN IF row = None THEN [ret |-> FALSE, mem |-> mem]
       ELSE LET cp == ndarray_copy(mem, b, "board_copy")
                m2 == ndarray_setitem(cp.mem, cp.ref, row, col, 0)
            IN double_threat_loop(m2, cp.ref, channel, 0, 0)

\* the follow-up scan written `range(1, 7)`: column 0 is never tried
creates_double_threat_from_col_1(mem, b, col, channel) ==
    LET row == get_next_row(mem[b], col)
    IN IF row = None THEN [ret |-> FALSE, mem |-> mem]
       ELSE LET cp == ndarray_copy(mem, b, "board_copy")
                m2 == ndarray_setitem(cp.mem, cp.ref, row, col, channel)
            IN double_threat_loop(m2, cp.ref, channel, 1, 0)

\* the counter started at one: a single winning column is reported as two
creates_double_threat_from_one(mem, b, col, channel) ==
    LET row == get_next_row(mem[b], col)
    IN IF row = None THEN [ret |-> FALSE, mem |-> mem]
       ELSE LET cp == ndarray_copy(mem, b, "board_copy")
                m2 == ndarray_setitem(cp.mem, cp.ref, row, col, channel)
            IN double_threat_loop(m2, cp.ref, channel, 0, 1)

\* the scan of the next columns run once for each of the seven columns
RECURSIVE double_threat_loop_repeated(_, _, _, _)
double_threat_loop_repeated(mem, board_copy, channel, times) ==
    IF times >= 7 THEN [ret |-> FALSE, mem |-> mem]
    ELSE LET scan == double_threat_loop(mem, board_copy, channel, 0, 0)
         IN IF scan.ret THEN scan
            ELSE double_threat_loop_repeated(scan.mem, board_copy, channel, times + 1)

\* the scan nested in a second loop over the columns: one ply deeper
creates_double_threat_nested_scan(mem, b, col, channel) ==
    LET row == get_next_row(mem[b], col)
    IN IF row = None THEN [ret |-> FALSE, mem |-> mem]
       ELSE LET cp == ndarray_copy(mem, b, "board_copy")
                m2 == ndarray_setitem(cp.mem, cp.ref, row, col, channel)
            IN double_threat_loop_repeated(m2, cp.ref, channel, 0)

\* _creates_double_threat
creates_double_threat(mem, b, col, channel) ==
    LET row == get_next_row(mem[b], col)
    IN IF row = None THEN [ret |-> FALSE, mem |-> mem]
       ELSE LET cp == ndarray_copy(mem, b, "board_copy")
                m2 == ndarray_setitem(cp.mem, cp.ref, row, col, channel)
            IN double_threat_loop(m2, cp.ref, channel, 0, 0)

\* --------------------------------------------------------- Move Selector
\* _get_valid_actions: [col for col in range(len(mask)) if mask[col] == 1]
RECURSIVE valid_actions_from(_, _)
valid_actions_from(mask, col) ==
    IF col >= NumCols THEN << >>
    ELSE IF mask[col] = 1 THEN <<col>> \o valid_actions_from(mask, col + 1)
    ELSE valid_actions_from(mask, col + 1)

\* range(1, len(mask)): column 0 never offered
get_valid_actions_from_1(mask) == valid_actions_from(mask, 1)

get_valid_actions(mask) == valid_actions_from(mask, 0)

InSeq(x, s) == \E i \in 1 .. Len(s) : s[i] = x

\* `for col in valid_actions: if self._creates_double_threat(...): return col`
RECURSIVE threat_scan(_, _, _, _, _)
threat_scan(mem, observation, valid_actions, channel, i) ==
    IF i > Len(valid_actions) THEN [ret |-> None, mem |-> mem]
    ELSE LET dt == creates_double_threat(mem, observation, valid_actions[i], channel)
         IN IF dt.ret THEN [ret |-> valid_actions[i], mem |-> dt.mem]
            ELSE threat_scan(dt.mem, observation, valid_actions, channel, i + 1)

\* a preference list that stops short of column 6
center_preference_without_6 == <<3, 2, 4, 1, 5, 0>>

\* the preference list with columns 2 and 4 exchanged
center_preference_right_first == <<3, 4, 2, 1, 5, 0, 6>>

center_preference == <<3, 2, 4, 1, 5, 0, 6>>

\* the preference list taken without the `col in valid_actions` test
center_scan_unchecked(valid_actions, i) == center_preference[i]

\* rule 5 left out: every undecided call falls through to random.choice
center_scan_absent(valid_actions, i) == None

\* `for col in center_preference: if col in valid_actions: return col`
RECURSIVE center_scan(_, _)
center_scan(valid_actions, i) ==
    IF i > Len(center_preference) THEN None
    ELSE IF InSeq(center_preference[i], valid_actions) THEN center_preference[i]
    ELSE center_scan(valid_actions, i + 1)

\* a fallback that answers column 0 when there is nothing to choose from
random_choice_default(seq) ==
    IF Len(seq) = 0 THEN {[kind |-> "return", value |-> 0]}
    ELSE {[kind |-> "return", value |-> seq[i]] : i \in 1 .. Len(seq)}

\* random.choice(seq): any element; IndexError on an empty sequence
random_choice(seq) ==
    IF Len(seq) = 0 THEN {[kind |-> "raise", value |-> None]}
    ELSE {[kind |-> "return", value |-> seq[i]] : i \in 1 .. Len(seq)}

\* one outcome of a call: `return col` decided by rule `rule`
Returns(col, by, mem) ==
    {[kind |-> "return", value |-> col, rule |-> by, mem |-> mem]}

\* the head of choose_action: a PettingZoo dict {'observation', 'action_mask'}
\* or a bare array; the dict's mask is used only when no mask is passed
unpack_observation(observation, mask) ==
    IF observation.is_dict
    THEN [board |-> observation.observation,
          action_mask |-> IF mask = None THEN observation.action_mask ELSE mask]
    ELSE [board |-> observation.observation, action_mask |-> mask]

\* rule 1 run on the opponent's channel
winning_move_wrong_channel(mem, b, valid_actions) ==
    find_winning_move(mem, b, valid_actions, 1)

\* Règle 1: self._find_winning_move(board, valid_actions, channel=0)
winning_move(mem, b, valid_actions) == find_winning_move(mem, b, valid_actions, 0)

\* rule 2 left out (the agent as it was before the block was added)
blocking_move_forgotten(mem, b, valid_actions) == [ret |-> None, mem |-> mem]

\* Règle 2: self._find_winning_move(board, valid_actions, channel=1)
blocking_move(mem, b, valid_actions) == find_winning_move(mem, b, valid_actions, 1)

\* rule 3 left out (the agent with win and block detection only)
own_threat_missing(mem, b, valid_actions) == [ret |-> None, mem |-> mem]

\* Règle 3: for col in valid_actions:
\*              if self._creates_double_threat(board, col, channel=0)
own_threat(mem, b, valid_actions) == threat_scan(mem, b, valid_actions, 0, 1)

\* rule 4 left out
opp_threat_missing(mem, b, valid_actions) == [ret |-> None, mem |-> mem]

\* Règle 4: for col in valid_actions:
\*              if self._creates_double_threat(board, col, channel=1)
opp_threat(mem, b, valid_actions) == threat_scan(mem, b, valid_actions, 1, 1)

\* SmartAgent.choose_action: the set of outcomes of one call, each with the
\* rule that decided it and the memory it leaves behind
choose_action(mem, observation, mask) ==
    LET args == unpack_observation(observation, mask)
        b == args.board
        valid_actions == get_valid_actions(args.action_mask)
        winning == winning_move(mem, b, valid_actions)
    IN IF winning.ret # None THEN Returns(winning.ret, 1, winning.mem)
       ELSE
       LET blocking == blocking_move(winning.mem, b, valid_actions)
       IN IF blocking.ret # None THEN Returns(blocking.ret, 2, blocking.mem)
          ELSE
          LET own == own_threat(blocking.mem, b, valid_actions)
          IN IF own.ret # None THEN Returns(own.ret, 3, own.mem)
             ELSE
             LET opp == opp_threat(own.mem, b, valid_actions)
             IN IF opp.ret # None THEN Returns(opp.ret, 4, opp.mem)
                ELSE
                LET center == center_scan(valid_actions, 1)
                IN IF center # None THEN Returns(center, 5, opp.mem)
                   ELSE {[kind |-> o.kind, value |-> o.value, rule |-> 6,
                          mem |-> opp.mem] : o \in random_choice(valid_actions)}

\* ------------------------------------------------------------ RandomAgent
\* the fallback mask taken from the occupied cells of row 0
derive_mask_occupied(b) ==
    [c \in Cols |-> IF b[0][c][0] + b[0][c][1] # 0 THEN 1 ELSE 0]

\* board_occupancy = board.sum(axis=2)
\* mask = (board_occupancy[0, :] == 0).astype(np.int8)
derive_mask(b) ==
    [c \in Cols |-> IF b[0][c][0] + b[0][c][1] = 0 THEN 1 ELSE 0]

\* np.nonzero(mask)[0]: the indices of the nonzero entries, ascending
RECURSIVE nonzero_from(_, _)
nonzero_from(mask, col) ==
    IF col >= NumCols THEN << >>
    ELSE IF mask[col] # 0 THEN <<col>> \o nonzero_from(mask, col + 1)
    ELSE nonzero_from(mask, col + 1)

\* an optional mask: << >> is Python's None, <<m>> is the mask m
NoneMask == << >>

\* RandomAgent.choose_action: the set of its outcomes.  The observation is a
\* bare array (is_dict false) or a dict whose "action_mask" entry is
\* dict_mask (None when the key is absent); both masks are optional masks.
random_agent_choose_action(b, is_dict, dict_mask, mask_arg, moves_count) ==
    LET given == IF mask_arg = NoneMask /\ is_dict THEN dict_mask ELSE mask_arg
        mask == IF given = NoneMask THEN derive_mask(b) ELSE given[1]
        legal_moves == nonzero_from(mask, 0)
    IN IF Len(legal_moves) = 0
       THEN {[kind |-> "raise", value |-> None, error |-> "ValueError",
              moves_count |-> moves_count + 1]}
       ELSE {[kind |-> "return", value |-> legal_moves[i], error |-> "none",
              moves_count |-> moves_count + 1] : i \in 1 .. Len(legal_moves)}

\* ------------------------------------------------------------- tournament
\* pairs = list(combinations(range(n_agents), 2)), in itertools' order
RECURSIVE combinations_from(_, _, _)
combinations_from(i, j, n) ==
    IF i >= n - 1 THEN << >>
    ELSE IF j >= n THEN combinations_from(i + 1, i + 2, n)
    ELSE << <<i, j>> >> \o combinations_from(i, j + 1, n)

combinations(n) == combinations_from(0, 1, n)

\* stats = {i: {'wins': 0, 'losses': 0, 'draws': 0, ...} for i in range(n)}
new_stats(n_agents) ==
    [i \in 0 .. (n_agents - 1) |-> [wins |-> 0, losses |-> 0, draws |-> 0]]

\* the state of run_tournament before it is called with n_agents classes and
\* num_games games per pair.  `truth` is not a variable of the code: it notes,
\* for each pair and from the seats the agents were given, how many games
\* the first agent won, the second won, and how many were drawn.
tournament_called(n_agents, num_games) ==
    [pc |-> "called", n_agents |-> n_agents, num_games |-> num_games,
     stats |-> new_stats(n_agents), head_to_head |-> << >>,
     pairs |-> << >>, pair |-> 1, game_idx |-> 0,
     pair_wins |-> <<0, 0>>, pair_draws |-> 0, games_played |-> 0,
     ranking |-> << >>,
     truth |-> << >>]

\* no tournament is being run
NoTournament == tournament_called(0, 0)

\* agent_instances: the agent (by index) seated as player_0 and as player_1
agent_instances(idx1, idx2, game_idx) ==
    IF game_idx % 2 = 0
    THEN [player_0 |-> idx1, player_1 |-> idx2]
    ELSE [player_0 |-> idx2, player_1 |-> idx1]

\* agent_map = {0: idx1, 1: idx2} or {0: idx2, 1: idx1}, written <<[0], [1]>>
agent_map(idx1, idx2, game_idx) ==
    IF game_idx % 2 = 0 THEN <<idx1, idx2>> ELSE <<idx2, idx1>>

\* the pair counters kept by seat, the alternation of the starter forgotten
record_result_by_seat(t, idx1, idx2, winner) ==
    LET map == agent_map(idx1, idx2, t.game_idx)
    IN IF winner = "player_0"
       THEN [t EXCEPT !.games_played = @ + 1,
                      !.stats[map[1]].wins = @ + 1,
                      !.stats[map[2]].losses = @ + 1,
                      !.pair_wins[1] = @ + 1]
       ELSE IF winner = "player_1"
       THEN [t EXCEPT !.games_played = @ + 1,
                      !.stats[map[2]].wins = @ + 1,
                      !.stats[map[1]].losses = @ + 1,
                      !.pair_wins[2] = @ + 1]
       ELSE [t EXCEPT !.games_played = @ + 1,
                      !.stats[idx1].draws = @ + 1,
                      !.stats[idx2].draws = @ + 1,
                      !.pair_draws = @ + 1]

\* "Enregistrer le résultat": winner is 'player_0', 'player_1' or None;
\* pair_wins[0] is written pair_wins[1] here, pair_wins[1] pair_wins[2]
record_result(t, idx1, idx2, winner) ==
    LET map == agent_map(idx1, idx2, t.game_idx)
    IN IF winner = "player_0"
       THEN [t EXCEPT !.games_played = @ + 1,
                      !.stats[map[1]].wins = @ + 1,
                      !.stats[map[2]].losses = @ + 1,
                      !.pair_wins[IF t.game_idx % 2 = 0 THEN 1 ELSE 2] = @ + 1]
       ELSE IF winner = "player_1"
       THEN [t EXCEPT !.games_played = @ + 1,
                      !.stats[map[2]].wins = @ + 1,
                      !.stats[map[1]].losses = @ + 1,
                      !.pair_wins[IF t.game_idx % 2 = 0 THEN 2 ELSE 1] = @ + 1]
       ELSE [t EXCEPT !.games_played = @ + 1,
                      !.stats[idx1].draws = @ + 1,
                      !.stats[idx2].draws = @ + 1,
                      !.pair_draws = @ + 1]

\* what the seats say of one game: the win goes to the agent that sat where
\* the environment names the winner
note_truth(truth, pair, seats, winner) ==
    LET won == IF winner = "none" THEN None ELSE seats[winner]
    IN [truth EXCEPT ![pair] =
           <<@[1] + (IF won = pair[1] THEN 1 ELSE 0),
             @[2] + (IF won = pair[2] THEN 1 ELSE 0),
             @[3] + (IF won = None THEN 1 ELSE 0)>>]

\* ranking = sorted(stats.items(), key=wins, reverse=True): the agents by
\* wins, most first, agents with equal wins in index order
RECURSIVE ranking_of(_, _)
ranking_of(stats, left) ==
    IF left = {} THEN << >>
    ELSE LET first == CHOOSE i \in left :
                          \A j \in left :
                              \/ stats[i].wins > stats[j].wins
                              \/ (stats[i].wins = stats[j].wins /\ i <= j)
         IN <<first>> \o ranking_of(stats, left \ {first})

\* ----------------------------------------------------------- transitions
NoMask == [c \in Cols |-> 0]

\* no helper has been called directly
NoProbe == [op |-> "none"]

TypeOK ==
    /\ board \in [Rows -> [Cols -> [Channels -> {0, 1}]]]
    /\ action_mask \in Masks
    /\ pc \in {"idle", "returned", "raised", "probed"}
    /\ probe.op \in {"none", "choose_action", "find_winning_move",
                    "creates_double_threat", "random_agent"}
    /\ result \in Cols \cup {None}
    /\ rule \in 0 .. 6
    /\ drops \in 0 .. MaxDrops
    /\ calls \in 0 .. MaxCalls

\* play_single_game(SmartAgent, RandomAgent): the columns of the first
\* fourteen env.step calls of one game, player_0 (the SmartAgent) moving
\* first; its seven moves are the ones choose_action returns
game_actions == <<3, 1, 3, 3, 3, 3, 3, 0, 2, 1, 2, 1, 1, 0>>

\* the board after the env.step calls i .. Len(actions), as player_0 observes
\* it: its own pieces (odd steps) in channel 0, player_1's in channel 1
RECURSIVE play_from(_, _, _)
play_from(b, actions, i) ==
    IF i > Len(actions) THEN b
    ELSE play_from([b EXCEPT ![get_next_row(b, actions[i])][actions[i]][(i + 1) % 2] = 1],
                   actions, i + 1)

\* the observation handed to the SmartAgent for its eighth move of that game
GameBoard == play_from(create_empty_board, game_actions, 1)

Init ==
    /\ board \in StartBoards \cup {GameBoard}
    /\ action_mask = NoMask
    /\ pc = "idle"
    /\ result = None
    /\ rule = 0
    /\ drops = 0
    /\ calls = 0
    /\ probe = NoProbe
    /\ tour = NoTournament

\* env.step(col): a piece of channel ch falls to the lowest empty cell
EnvStep(col, ch) ==
    /\ pc = "idle"
    /\ drops < MaxDrops
    /\ \E row \in Rows :
        /\ board[row][col][0] = 0 /\ board[row][col][1] = 0
        /\ \A below \in Rows : below > row =>
              (board[below][col][0] = 1 \/ board[below][col][1] = 1)
        /\ board' = [board EXCEPT ![row][col][ch] = 1]
    /\ drops' = drops + 1
    /\ UNCHANGED <<action_mask, pc, result, rule, calls, probe, tour>>

\* the arrays of one call: the caller's board and the two scratch names;
\* with them the log of item assignments and the count of alignment checks,
\* which the code does not keep and which nothing in it reads
Memory(b) ==
    [observation |-> b, board_copy |-> create_empty_board,
     board_copy2 |-> create_empty_board,
     writes |-> << >>, checks |-> 0]

\* what a call leaves in the caller's variables
Outcome(o, mask) ==
    /\ board' = o.mem["observation"]
    /\ pc' = IF o.kind = "return" THEN "returned" ELSE "raised"
    /\ result' = o.value
    /\ rule' = o.rule
    /\ action_mask' = mask
    /\ calls' = calls + 1
    /\ probe' = [op |-> "choose_action", checks |-> o.mem.checks]
    /\ UNCHANGED <<drops, tour>>

\* the masks a caller hands over with board b: any mask at all with a start
\* board, and with a board played on from there the environment's own mask
\* or one of the masks of the tests
CallerMasks(b, played) ==
    IF played = 0 THEN Masks ELSE TestMasks \cup {get_action_mask(b)}

\* action = agent.choose_action(board, action_mask=mask)
Call(mask) ==
    /\ pc = "idle"
    /\ mask \in CallerMasks(board, drops)
    /\ \E o \in choose_action(Memory(board),
                              [is_dict |-> FALSE, observation |-> "observation"],
                              mask) :
          Outcome(o, mask)

\* a further call on the same board and mask, the observation handed over as
\* the PettingZoo dict and the mask left to be read from it
CallAgain ==
    /\ pc \in {"returned", "raised"}
    /\ calls < MaxCalls
    /\ \E o \in choose_action(Memory(board),
                              [is_dict |-> TRUE, observation |-> "observation",
                               action_mask |-> action_mask],
                              None) :
          Outcome(o, action_mask)

\* agent._find_winning_move(board, valid_actions, channel=ch), called
\* directly as test_smart_agent.py does
FindWinningMove(mask, ch) ==
    /\ pc = "idle"
    /\ mask \in TestMasks \cup {get_action_mask(board)}
    /\ LET valid_actions == get_valid_actions(mask)
           r == find_winning_move(Memory(board), "observation", valid_actions, ch)
       IN /\ board' = r.mem["observation"]
          /\ probe' = [op |-> "find_winning_move", valid_actions |-> valid_actions,
                        channel |-> ch, ret |-> r.ret,
                        writes |-> r.mem.writes, checks |-> r.mem.checks]
    /\ pc' = "probed"
    /\ UNCHANGED <<action_mask, result, rule, drops, calls, tour>>

\* agent._creates_double_threat(board, col, channel=ch), called directly
CreatesDoubleThreat(col, ch) ==
    /\ pc = "idle"
    /\ LET r == creates_double_threat(Memory(board), "observation", col, ch)
       IN /\ board' = r.mem["observation"]
          /\ probe' = [op |-> "creates_double_threat", col |-> col,
                        channel |-> ch, ret |-> r.ret,
                        board_copy |-> r.mem["board_copy"],
                        writes |-> r.mem.writes, checks |-> r.mem.checks]
    /\ pc' = "probed"
    /\ UNCHANGED <<action_mask, result, rule, drops, calls, tour>>

\* the masks a caller hands to the RandomAgent with board b, as an argument
\* or inside the observation dict: none at all, and with a start board also
\* the environment's mask, a mask of the tests and the mask without a legal
\* column
RandomCallerMasks(b, played) ==
    IF played = 0
    THEN {NoneMask, <<get_action_mask(b)>>, <<NoMask>>,
          <<MaskOf(<<1, 0, 0, 0, 0, 0, 1>>)>>}
    ELSE {NoneMask}

\* action = random_agent.choose_action(observation, action_mask=mask_arg)
RandomAgentCall(is_dict, dict_mask, mask_arg) ==
    /\ pc = "idle"
    /\ mask_arg \in RandomCallerMasks(board, drops)
    /\ dict_mask \in IF is_dict THEN RandomCallerMasks(board, drops) ELSE {NoneMask}
    /\ \E o \in random_agent_choose_action(board, is_dict, dict_mask, mask_arg, 0) :
          probe' = [op |-> "random_agent", is_dict |-> is_dict,
                    dict_mask |-> dict_mask, mask_arg |-> mask_arg,
                    kind |-> o.kind, ret |-> o.value, error |-> o.error,
                    moves_count |-> o.moves_count]
    /\ pc' = "probed"
    /\ UNCHANGED <<board, action_mask, result, rule, drops, calls, tour>>

Next ==
    \/ \E col \in Cols, ch \in Channels : EnvStep(col, ch)
    \/ \E mask \in Masks : Call(mask)
    \/ CallAgain
    \/ \E mask \in Masks, ch \in Channels : FindWinningMove(mask, ch)
    \/ \E col \in Cols, ch \in Channels : CreatesDoubleThreat(col, ch)
    \/ \E is_dict \in BOOLEAN,
          dict_mask \in RandomCallerMasks(board, drops),
          mask_arg \in RandomCallerMasks(board, drops) :
            RandomAgentCall(is_dict, dict_mask, mask_arg)

Spec == Init /\ [][Next]_vars

\* ------------------------------------------------- the tournament's steps
agent_vars == <<board, action_mask, pc, result, rule, drops, calls, probe>>

\* a caller about to run run_tournament(agents_classes, num_games)
TournamentInit ==
    /\ board = create_empty_board
    /\ action_mask = NoMask
    /\ pc = "idle"
    /\ result = None
    /\ rule = 0
    /\ drops = 0
    /\ calls = 0
    /\ probe = NoProbe
    /\ \E call \in TournamentCalls : tour = tournament_called(call[1], call[2])

\* the head of run_tournament: ValueError for fewer than two classes, else
\* the pairs are drawn up and the first pair's counters are set to zero
StartTournament ==
    /\ tour.pc = "called"
    /\ tour' = IF tour.n_agents < 2
               THEN [tour EXCEPT !.pc = "raised"]
               ELSE [tour EXCEPT
                        !.pc = "playing",
                        !.pairs = combinations(tour.n_agents),
                        !.truth = [p \in {combinations(tour.n_agents)[k] :
                                            k \in 1 .. Len(combinations(tour.n_agents))}
                                      |-> <<0, 0, 0>>]]
    /\ UNCHANGED agent_vars

\* one turn of `for game_idx in range(num_games)`: the seats are given out,
\* the game is played (the environment names the winner, or nobody) and the
\* result is recorded
PlayGame(winner) ==
    /\ tour.pc = "playing"
    /\ tour.pair <= Len(tour.pairs)
    /\ tour.game_idx < tour.num_games
    /\ LET idx1 == tour.pairs[tour.pair][1]
           idx2 == tour.pairs[tour.pair][2]
           seats == agent_instances(idx1, idx2, tour.game_idx)
       IN tour' = [record_result(tour, idx1, idx2, winner) EXCEPT
                      !.game_idx = @ + 1,
                      !.truth = note_truth(@, <<idx1, idx2>>, seats, winner)]
    /\ UNCHANGED agent_vars

\* the end of one pair: head_to_head[(idx1, idx2)] is stored and the next
\* pair starts with fresh counters
EndPair ==
    /\ tour.pc = "playing"
    /\ tour.pair <= Len(tour.pairs)
    /\ tour.game_idx = tour.num_games
    /\ tour' = [tour EXCEPT
                   !.head_to_head =
                       (tour.pairs[tour.pair] :>
                           <<tour.pair_wins[1], tour.pair_wins[2], tour.pair_draws>>) @@ @,
                   !.pair = @ + 1,
                   !.game_idx = 0,
                   !.pair_wins = <<0, 0>>,
                   !.pair_draws = 0]
    /\ UNCHANGED agent_vars

\* all pairs played: the ranking is drawn up and the results are returned
FinishTournament ==
    /\ tour.pc = "playing"
    /\ tour.pair > Len(tour.pairs)
    /\ tour' = [tour EXCEPT
                   !.pc = "done",
                   !.ranking = ranking_of(tour.stats, DOMAIN tour.stats)]
    /\ UNCHANGED agent_vars

TournamentNext ==
    \/ StartTournament
    \/ \E winner \in {"player_0", "player_1", "none"} : PlayGame(winner)
    \/ EndPair
    \/ FinishTournament

Tournament == TournamentInit /\ [][TournamentNext]_vars

\* ------------------------------------------------- stated independently
\* the columns the mask declares legal
Legal(mask) == {c \in Cols : mask[c] = 1}

\* the rows of a column that are empty in both layers
EmptyRows(b, col) == {r \in Rows : b[r][col][0] = 0 /\ b[r][col][1] = 0}

\* the cell a piece dropped in a non-full column comes to rest in
LandingRow(b, col) == CHOOSE r \in EmptyRows(b, col) : \A q \in EmptyRows(b, col) : q <= r

Axes == {<<0, 1>>, <<1, 0>>, <<-1, 1>>, <<1, 1>>}

\* some window of four aligned cells of the grid contains (row, col) and is
\* otherwise filled with pieces of ch
FourThrough(b, row, col, ch) ==
    \E d \in Axes, k \in 0 .. 3 :
        \A j \in 0 .. 3 :
            LET r == row + (j - k) * d[1]
                c == col + (j - k) * d[2]
            IN /\ r \in Rows
               /\ c \in Cols
               /\ (j = k \/ b[r][c][ch] = 1)

\* a piece of ch dropped in col lands and completes four
CompletesFour(b, col, ch) ==
    /\ EmptyRows(b, col) # {}
    /\ FourThrough(b, LandingRow(b, col), col, ch)

WinningColumns(b, mask, ch) == {c \in Legal(mask) : CompletesFour(b, c, ch)}

\* after a piece of ch is dropped in col, two or more columns complete four
DoubleThreat(b, col, ch) ==
    /\ EmptyRows(b, col) # {}
    /\ LET after == [b EXCEPT ![LandingRow(b, col)][col][ch] = 1]
       IN Cardinality({c \in Cols : CompletesFour(after, c, ch)}) >= 2

MinOf(S) == CHOOSE x \in S : \A y \in S : x <= y

PreferenceOrder == <<3, 2, 4, 1, 5, 0, 6>>

FirstPreferred(S) ==
    PreferenceOrder[MinOf({i \in 1 .. 7 : PreferenceOrder[i] \in S})]

\* choose_action has been called and has come back
Called == pc \in {"returned", "raised"}

\* ---------------------------------------------------------------- claims
\* C1: whenever the mask has a legal column, the call returns one column in
\* 0..6 whose mask entry is 1, whichever rule decided.
C1_ReturnsLegalColumn ==
    (Called /\ Legal(action_mask) # {}) =>
        /\ pc = "returned"
        /\ result \in Cols
        /\ action_mask[result] = 1

\* a call decided by the centre preference under a mask that forbids column 3
C1_Witness ==
    /\ pc = "returned" /\ rule = 5
    /\ action_mask[3] = 0
    /\ action_mask[result] = 1

\* C2: when some legal column completes four for the mover, the call returns
\* the lowest-index such column.
C2_TakesLowestWin ==
    (Called /\ WinningColumns(board, action_mask, 0) # {}) =>
        /\ pc = "returned"
        /\ result = MinOf(WinningColumns(board, action_mask, 0))

\* two winning columns for the mover, the lower one returned
C2_Witness ==
    /\ pc = "returned"
    /\ Cardinality(WinningColumns(board, action_mask, 0)) >= 2
    /\ result = MinOf(WinningColumns(board, action_mask, 0))

\* C3: when no legal column wins for the mover and some legal column would
\* win for the opponent, the call returns the lowest-index such column.
C3_BlocksLowestThreat ==
    (/\ Called
     /\ WinningColumns(board, action_mask, 0) = {}
     /\ WinningColumns(board, action_mask, 1) # {}) =>
        /\ pc = "returned"
        /\ result = MinOf(WinningColumns(board, action_mask, 1))

\* a block: the opponent threatens, the mover cannot win, the threat is met
C3_Witness ==
    /\ pc = "returned"
    /\ WinningColumns(board, action_mask, 0) = {}
    /\ WinningColumns(board, action_mask, 1) # {}
    /\ result = MinOf(WinningColumns(board, action_mask, 1))
    /\ result # FirstPreferred(Legal(action_mask))

\* C4: when both sides have a legal winning column, the call is decided by
\* rule 1 and returns a winning column of the mover, not the column rule 2
\* would have blocked.
C4_WinBeforeBlock ==
    (/\ Called
     /\ WinningColumns(board, action_mask, 0) # {}
     /\ WinningColumns(board, action_mask, 1) # {}) =>
        /\ pc = "returned"
        /\ rule = 1
        /\ result \in WinningColumns(board, action_mask, 0)

\* both sides can win, in different columns, and the mover's win is taken
C4_Witness ==
    /\ pc = "returned"
    /\ WinningColumns(board, action_mask, 0) # {}
    /\ WinningColumns(board, action_mask, 1) # {}
    /\ result \in WinningColumns(board, action_mask, 0)
    /\ result \notin WinningColumns(board, action_mask, 1)

\* C5: a mask with exactly one legal column forces that column, whatever
\* the board holds.
C5_ForcedMove ==
    (Called /\ Cardinality(Legal(action_mask)) = 1) =>
        /\ pc = "returned"
        /\ Legal(action_mask) = {result}

\* a forced move into a column the board has no room in
C5_Witness ==
    /\ pc = "returned"
    /\ Legal(action_mask) = {result}
    /\ EmptyRows(board, result) = {}

NoRuleApplies(b, mask) ==
    /\ WinningColumns(b, mask, 0) = {}
    /\ WinningColumns(b, mask, 1) = {}
    /\ \A c \in Legal(mask), ch \in Channels : ~DoubleThreat(b, c, ch)

\* C6: when no legal column wins for either side or creates a double threat
\* for either side, the call returns the first legal column of
\* [3,2,4,1,5,0,6]; on the empty board with every column legal that is 3.
C6_CentrePreference ==
    /\ (Called /\ Legal(action_mask) # {} /\ NoRuleApplies(board, action_mask)) =>
          /\ pc = "returned"
          /\ result = FirstPreferred(Legal(action_mask))
    /\ (Called /\ board = create_empty_board /\ Legal(action_mask) = Cols) =>
          result = 3

\* the preference decides on a board with pieces of both sides, and the
\* column it picks is neither 3 nor the lowest legal one
C6_Witness ==
    /\ pc = "returned"
    /\ NoRuleApplies(board, action_mask)
    /\ \E r \in Rows, c \in Cols : board[r][c][0] = 1
    /\ \E r \in Rows, c \in Cols : board[r][c][1] = 1
    /\ result = FirstPreferred(Legal(action_mask))
    /\ result # 3
    /\ result # MinOf(Legal(action_mask))

\* C7: with no legal column the call raises and returns no column.
C7_NoLegalMoveRaises ==
    (Called /\ Legal(action_mask) = {}) =>
        /\ pc = "raised"
        /\ result = None

\* a call with an empty mask on a board that still has room
C7_Witness ==
    /\ pc = "raised"
    /\ Legal(action_mask) = {}
    /\ \E c \in Cols : EmptyRows(board, c) # {}

\* C8: no call of choose_action, _find_winning_move or
\* _creates_double_threat changes a cell of the caller's board.
C8_BoardNeverMutated ==
    [][pc' # "idle" => board' = board]_vars

\* a call went through every rule, placing hypothetical pieces on the way
C8_Witness ==
    /\ pc = "returned" /\ rule = 5
    /\ \E c \in Legal(action_mask) : EmptyRows(board, c) # {}
    /\ \E r \in Rows, c \in Cols : board[r][c][0] = 1

\* C9: a second call with the same board and mask returns the same column.
C9_Deterministic ==
    [][(/\ Called /\ Called'
        /\ Legal(action_mask) # {}
        /\ board' = board /\ action_mask' = action_mask) =>
           (pc' = pc /\ result' = result)]_vars

\* a second call returned, with several legal columns to choose among
C9_Witness ==
    /\ calls >= 2
    /\ pc = "returned"
    /\ Cardinality(Legal(action_mask)) >= 2

\* C10: _get_next_row returns the largest row index whose cell is empty in
\* both layers, and None exactly when the column has no empty cell.
C10_NextRowIsLowestEmpty ==
    \A col \in Cols :
        LET row == get_next_row(board, col)
        IN IF EmptyRows(board, col) = {}
           THEN row = None
           ELSE /\ row \in EmptyRows(board, col)
                /\ \A q \in EmptyRows(board, col) : q <= row

\* a board with a full column and a column whose top piece is the opponent's
C10_Witness ==
    /\ \E c \in Cols : get_next_row(board, c) = None
    /\ \E c \in Cols :
          LET row == get_next_row(board, c)
          IN row \in 0 .. 4 /\ board[row + 1][c][1] = 1

\* the number of consecutive cells holding a piece of ch met when walking
\* from (row, col), that cell excluded, in direction d: the walk ends at the
\* edge of the grid and at the first cell without a piece of ch
Reach(b, row, col, d, ch) ==
    Cardinality({k \in 1 .. 6 :
        \A j \in 1 .. k :
            /\ row + j * d[1] \in Rows
            /\ col + j * d[2] \in Cols
            /\ b[row + j * d[1]][col + j * d[2]][ch] = 1})

\* the length of the maximal segment through (row, col) on the axis d, the
\* cell itself counted whatever it holds
SegmentLength(b, row, col, d, ch) ==
    1 + Reach(b, row, col, d, ch) + Reach(b, row, col, <<-d[1], -d[2]>>, ch)

\* C11: _check_win_from_position is true exactly when, on one of the four
\* axes, the maximal segment of pieces of the channel adjoining (row, col) on
\* both sides, plus the cell itself, is at least four long; the count stops
\* at the edge of the grid and at the first empty or other-channel cell.
C11_FourOnSomeAxis ==
    pc = "idle" =>
        \A row \in Rows, col \in Cols, ch \in Channels :
            check_win_from_position(board, row, col, ch) <=>
                \E d \in Axes : SegmentLength(board, row, col, d, ch) >= 4

\* a board with a cell that closes a diagonal of four, and a cell whose
\* longest segment is three, one end of it on the edge of the grid
C11_Witness ==
    /\ pc = "idle"
    /\ \E row \in Rows, col \in Cols :
          /\ check_win_from_position(board, row, col, 0)
          /\ SegmentLength(board, row, col, <<-1, 1>>, 0) >= 4
    /\ \E row \in Rows, col \in Cols :
          /\ ~check_win_from_position(board, row, col, 0)
          /\ row = 5
          /\ SegmentLength(board, row, col, <<1, 0>>, 0) = 3

\* _find_winning_move has been called directly and has come back
ProbedWinningMove == pc = "probed" /\ probe.op = "find_winning_move"

\* C12: _find_winning_move returns the first column, in the order of the
\* legal list, whose landing cell completes four for the channel, and None
\* exactly when no listed column does; the column returned is in the list
\* and is not full.
C12_FirstWinningListed ==
    ProbedWinningMove =>
        LET valid_actions == probe.valid_actions
            Winning == {i \in 1 .. Len(valid_actions) :
                           CompletesFour(board, valid_actions[i], probe.channel)}
        IN /\ (probe.ret = None) <=> (Winning = {})
           /\ Winning # {} => probe.ret = valid_actions[MinOf(Winning)]
           /\ probe.ret # None =>
                 /\ \E i \in 1 .. Len(valid_actions) : valid_actions[i] = probe.ret
                 /\ EmptyRows(board, probe.ret) # {}

\* a column is returned that is not the first of the list, while a column of
\* lower index that is not in the list would complete four as well
C12_Witness ==
    /\ ProbedWinningMove
    /\ probe.ret # None
    /\ probe.ret # probe.valid_actions[1]
    /\ \E c \in Cols :
          /\ c < probe.ret
          /\ CompletesFour(board, c, probe.channel)

\* the empty cells that prolong, at either end, three aligned pieces of ch:
\* <<row, col>> next to a run (r, c), (r, c) + d, (r, c) + 2d along an axis d
OpenExtensions(b, ch) ==
    {e \in Rows \X Cols :
        /\ b[e[1]][e[2]][0] = 0 /\ b[e[1]][e[2]][1] = 0
        /\ \E d \in Axes, s \in {-1, 1} :
              \A j \in 1 .. 3 :
                  /\ e[1] + s * j * d[1] \in Rows
                  /\ e[2] + s * j * d[2] \in Cols
                  /\ b[e[1] + s * j * d[1]][e[2] + s * j * d[2]][ch] = 1}

\* the columns of a list
Listed(valid_actions) == {valid_actions[i] : i \in 1 .. Len(valid_actions)}

\* _find_winning_move has been called for the mover with the columns that
\* are open on the board
ProbedMoverOverOpenColumns ==
    /\ ProbedWinningMove
    /\ probe.channel = 0
    /\ Listed(probe.valid_actions) = Legal(get_action_mask(board))

\* C13 as stated: whenever the mover has three aligned pieces with an empty
\* cell prolonging the run, _find_winning_move for the mover over the legal
\* columns returns the column of that cell.
C13_ReturnsExtensionColumn ==
    ProbedMoverOverOpenColumns =>
        \A e \in OpenExtensions(board, 0) : probe.ret = e[2]

\* C13: whenever the mover has three aligned pieces with an empty cell
\* prolonging the run, and that cell is the landing cell of a listed column,
\* _find_winning_move for the mover returns a column that completes four:
\* the column of that cell, unless a listed column of lower index completes
\* four as well, which is then the one returned.
C13_ReturnsPlayableExtension ==
    (ProbedWinningMove /\ probe.channel = 0) =>
        \A e \in OpenExtensions(board, 0) :
            (e[2] \in Listed(probe.valid_actions) /\ LandingRow(board, e[2]) = e[1]) =>
                /\ probe.ret # None
                /\ CompletesFour(board, probe.ret, 0)
                /\ probe.ret <= e[2]
                /\ (\A c \in Listed(probe.valid_actions) :
                        c < e[2] => ~CompletesFour(board, c, 0)) => probe.ret = e[2]

\* the run is a diagonal, its prolonging cell is where a piece lands, and the
\* column of that cell is returned although an earlier listed column is open
C13_Witness ==
    /\ ProbedWinningMove /\ probe.channel = 0
    /\ \E e \in OpenExtensions(board, 0) :
          /\ LandingRow(board, e[2]) = e[1]
          /\ e[1] < 5
          /\ \A j \in 1 .. 3 : board[e[1] + j][e[2] - j][0] = 1
          /\ probe.ret = e[2]
          /\ probe.valid_actions[1] < e[2]

\* _creates_double_threat has been called directly and has come back
ProbedDoubleThreat == pc = "probed" /\ probe.op = "creates_double_threat"

\* the number of pieces of ch on the board
Pieces(b, ch) == Cardinality({cell \in Rows \X Cols : b[cell[1]][cell[2]][ch] = 1})

\* C14: _creates_double_threat is false whenever fewer than two pieces of the
\* channel are on the board before the call.
C14_TwoPiecesNeeded ==
    (ProbedDoubleThreat /\ Pieces(board, probe.channel) < 2) => probe.ret = FALSE

\* the channel has one piece on the board, the other channel has three, the
\* column asked about is open and a piece dropped there lands next to that
\* one piece
C14_Witness ==
    /\ ProbedDoubleThreat
    /\ Pieces(board, probe.channel) = 1
    /\ Pieces(board, 1 - probe.channel) >= 3
    /\ EmptyRows(board, probe.col) # {}
    /\ \E c \in Cols :
          /\ c \in {probe.col - 1, probe.col + 1}
          /\ board[LandingRow(board, probe.col)][c][probe.channel] = 1
    /\ probe.ret = FALSE

\* the columns with an empty cell
OpenColumns(b) == {c \in Cols : EmptyRows(b, c) # {}}

\* the board after a piece of ch has fallen in the open column col
Drop(b, col, ch) == [b EXCEPT ![LandingRow(b, col)][col][ch] = 1]

\* C15: whenever _creates_double_threat(board, c, Mover) is true, then after
\* the mover's piece is dropped in c and the opponent drops one piece in any
\* open column, some open column still completes four for the mover.
C15_OneThreatSurvives ==
    (ProbedDoubleThreat /\ probe.channel = 0 /\ probe.ret) =>
        LET after == Drop(board, probe.col, 0)
        IN \A reply \in OpenColumns(after) :
              \E c \in Cols : CompletesFour(Drop(after, reply, 1), c, 0)

\* a double threat of exactly two columns, the opponent able to answer in
\* either of them
C15_Witness ==
    /\ ProbedDoubleThreat /\ probe.channel = 0 /\ probe.ret
    /\ LET after == Drop(board, probe.col, 0)
           Threats == {c \in Cols : CompletesFour(after, c, 0)}
       IN /\ Cardinality(Threats) = 2
          /\ \A reply \in Threats :
                Cardinality({c \in Cols :
                    CompletesFour(Drop(after, reply, 1), c, 0)}) = 1

\* C16: a double threat is a guaranteed victory: when choose_action returns
\* a column by rule 3 and that move is played, then whatever open column the
\* opponent answers in, the answer does not complete four for the opponent
\* and some column completes four for the mover on its next turn.
C16_DoubleThreatWins ==
    (pc = "returned" /\ rule = 3 /\ action_mask = get_action_mask(board)) =>
        LET after == Drop(board, result, 0)
        IN \A reply \in OpenColumns(after) :
              /\ ~CompletesFour(after, reply, 1)
              /\ \E c \in Cols : CompletesFour(Drop(after, reply, 1), c, 0)

\* C17: _creates_double_threat is true exactly when the column is not full
\* and, on the board after a piece of the channel is dropped there, at least
\* two distinct columns among all of 0..6 have a landing cell where a second
\* piece of the channel completes four; it is false for a full column.
C17_TwoWinningColumns ==
    ProbedDoubleThreat =>
        /\ probe.ret <=> DoubleThreat(board, probe.col, probe.channel)
        /\ EmptyRows(board, probe.col) = {} => probe.ret = FALSE

\* a double threat one of whose two columns is the column just played in,
\* the second piece landing on top of the first
C17_Witness ==
    /\ ProbedDoubleThreat
    /\ probe.ret
    /\ LET after == Drop(board, probe.col, probe.channel)
       IN /\ CompletesFour(after, probe.col, probe.channel)
          /\ Cardinality({c \in Cols : CompletesFour(after, c, probe.channel)}) = 2

\* the legal columns in which a piece of ch creates a double threat
ThreatColumns(b, mask, ch) == {c \in Legal(mask) : DoubleThreat(b, c, ch)}

FullMask == [c \in Cols |-> 1]

\* C18: when neither side has a winning legal column and some legal column
\* creates a double threat for the mover, choose_action returns the lowest
\* such column; with the mover on (5,1), (5,2), (4,2) and a full mask the
\* column returned is 0 or 3.
C18_LowestOwnThreat ==
    /\ (/\ Called
        /\ WinningColumns(board, action_mask, 0) = {}
        /\ WinningColumns(board, action_mask, 1) = {}
        /\ ThreatColumns(board, action_mask, 0) # {}) =>
            /\ pc = "returned"
            /\ result = MinOf(ThreatColumns(board, action_mask, 0))
    /\ (/\ Called
        /\ board = DoubleThreatBoard
        /\ action_mask = FullMask) => result \in {0, 3}

\* rule 3 decides between two legal columns that both create a double
\* threat, the first legal column creating none
C18_Witness ==
    /\ pc = "returned" /\ rule = 3
    /\ WinningColumns(board, action_mask, 1) = {}
    /\ Cardinality(ThreatColumns(board, action_mask, 0)) >= 2
    /\ \E c \in Legal(action_mask) : c < result

\* C19: when rules 1 to 3 do not apply and some legal column creates a
\* double threat for the opponent, choose_action returns the lowest such
\* column, before the centre preference is consulted.
C19_LowestOpponentThreat ==
    (/\ Called
     /\ WinningColumns(board, action_mask, 0) = {}
     /\ WinningColumns(board, action_mask, 1) = {}
     /\ ThreatColumns(board, action_mask, 0) = {}
     /\ ThreatColumns(board, action_mask, 1) # {}) =>
        /\ pc = "returned"
        /\ result = MinOf(ThreatColumns(board, action_mask, 1))

\* rule 4 decides, against the centre preference and with a lower legal
\* column at hand
C19_Witness ==
    /\ pc = "returned" /\ rule = 4
    /\ result # FirstPreferred(Legal(action_mask))
    /\ \E c \in Legal(action_mask) : c < result

\* the number of columns completing four for the opponent once a piece of
\* ch has been dropped in col
OpponentWinsAfter(b, col, ch) ==
    Cardinality({c \in Cols : CompletesFour(Drop(b, col, ch), c, 1)})

\* C20 as stated: in rule 4 the opponent's double threat for a candidate
\* column is evaluated on a board where the mover has placed a piece in that
\* column: the hypothetical board of _creates_double_threat(channel=1) is the
\* given board plus a mover piece, and a column returned by rule 4 leaves the
\* opponent two winning columns after the mover's piece.
C20_EvaluatedAfterMoverPiece ==
    /\ (ProbedDoubleThreat /\ probe.channel = 1 /\ EmptyRows(board, probe.col) # {}) =>
          probe.board_copy = Drop(board, probe.col, 0)
    /\ (pc = "returned" /\ rule = 4) => OpponentWinsAfter(board, result, 0) >= 2

\* C20: in rule 4 the opponent's double threat for a candidate column is
\* evaluated on a board where the opponent has placed a piece in that
\* column: the hypothetical board of _creates_double_threat(channel=1) is the
\* given board plus an opponent piece at the landing cell, and a column
\* returned by rule 4 leaves the opponent two winning columns after the
\* opponent's own piece.
C20_EvaluatedAfterOpponentPiece ==
    /\ (ProbedDoubleThreat /\ probe.channel = 1 /\ EmptyRows(board, probe.col) # {}) =>
          probe.board_copy = Drop(board, probe.col, 1)
    /\ (pc = "returned" /\ rule = 4) => OpponentWinsAfter(board, result, 1) >= 2

\* the opponent's double threat is found in a column where a mover piece
\* would have left the opponent fewer than two winning columns
C20_Witness ==
    /\ ProbedDoubleThreat /\ probe.channel = 1
    /\ probe.ret
    /\ probe.board_copy[LandingRow(board, probe.col)][probe.col][1] = 1
    /\ probe.board_copy[LandingRow(board, probe.col)][probe.col][0] = 0
    /\ OpponentWinsAfter(board, probe.col, 0) < 2

\* the legal columns that have no empty cell
FullLegalColumns(b, mask) == {c \in Legal(mask) : EmptyRows(b, c) = {}}

\* C21 as stated: for every board and mask, a full column is skipped by each
\* of rules 1 to 5, so choose_action never returns a column without an empty
\* cell while another legal column exists.
C21_FullColumnNeverReturned ==
    (Called /\ Legal(action_mask) \ FullLegalColumns(board, action_mask) # {}) =>
        /\ pc = "returned"
        /\ EmptyRows(board, result) # {}

\* C21: a full column is skipped by each of rules 1 to 4, without an error
\* and without being returned; rules 5 and 6 take legality from the mask
\* alone, so choose_action never returns a column without an empty cell when
\* the mask declares no full column legal.
C21_FullColumnSkippedByScans ==
    /\ (Called /\ rule \in 1 .. 4) =>
          /\ pc = "returned"
          /\ EmptyRows(board, result) # {}
    /\ (/\ Called
        /\ Legal(action_mask) # {}
        /\ FullLegalColumns(board, action_mask) = {}) =>
          /\ pc = "returned"
          /\ EmptyRows(board, result) # {}

\* one of rules 1 to 4 returns a column after passing over a legal column of
\* lower index that is full
C21_Witness ==
    /\ pc = "returned" /\ rule \in 1 .. 4
    /\ \E c \in FullLegalColumns(board, action_mask) : c < result

\* the winning columns among next_col .. 6 counted one by one, none left out:
\* the loop of _creates_double_threat without its early return
RECURSIVE CountWinningFrom(_, _, _)
CountWinningFrom(b, channel, next_col) ==
    IF next_col >= 7 THEN 0
    ELSE LET next_row == get_next_row(b, next_col)
             won == /\ next_row # None
                    /\ check_win_from_position(
                           [b EXCEPT ![next_row][next_col][channel] = 1],
                           next_row, next_col, channel)
         IN (IF won THEN 1 ELSE 0) + CountWinningFrom(b, channel, next_col + 1)

\* _creates_double_threat rewritten to enumerate all seven next columns and
\* to answer `count >= 2` at the end
ExhaustiveDoubleThreat(b, col, channel) ==
    LET row == get_next_row(b, col)
    IN IF row = None THEN FALSE
       ELSE CountWinningFrom([b EXCEPT ![row][col][channel] = 1], channel, 0) >= 2

\* C22: the early return at two winning columns changes nothing: for every
\* board, column and channel _creates_double_threat answers as the version
\* that enumerates all seven next columns and answers count >= 2.
C22_EarlyExitIsNotSemantic ==
    ProbedDoubleThreat =>
        (probe.ret <=> ExhaustiveDoubleThreat(board, probe.col, probe.channel))

\* the early return taken with columns left unscanned, one of which would
\* have been a third winning column
C22_Witness ==
    /\ ProbedDoubleThreat
    /\ probe.ret
    /\ EmptyRows(board, probe.col) # {}
    /\ CountWinningFrom(Drop(board, probe.col, probe.channel), probe.channel, 0) >= 3

\* C23: the random fallback is unreachable whenever a column is legal: for
\* every board and every mask with a true entry, choose_action returns from
\* one of rules 1 to 5 and random.choice is never evaluated.
C23_FallbackUnreachable ==
    (Called /\ Legal(action_mask) # {}) =>
        /\ pc = "returned"
        /\ rule \in 1 .. 5

\* the last entry of the preference list is the one that decides: column 6
\* is the only legal column and no earlier rule applies
C23_Witness ==
    /\ pc = "returned" /\ rule = 5
    /\ Legal(action_mask) = {6}
    /\ result = 6

\* a cell holds a piece of either channel
Occupied(b, row, col) == b[row][col][0] = 1 \/ b[row][col][1] = 1

\* no empty cell lies below an occupied one
Gravity(b) ==
    \A col \in Cols, row \in 0 .. 4 : Occupied(b, row, col) => Occupied(b, row + 1, col)

\* C24: on every board built by gravity placements, the mask entry of a
\* column, derived as "row 0 of the column is empty in both layers", is true
\* exactly when _get_next_row returns a row for that column.
C24_MaskAgreesWithNextRow ==
    Gravity(board) =>
        \A col \in Cols :
            (get_action_mask(board)[col] = 1) <=> (get_next_row(board, col) # None)

\* a board played on, with a full column, a column filled up to row 1 and an
\* empty column
C24_Witness ==
    /\ Gravity(board)
    /\ drops >= 1
    /\ \E col \in Cols : get_action_mask(board)[col] = 0 /\ get_next_row(board, col) = None
    /\ \E col \in Cols : get_action_mask(board)[col] = 1 /\ get_next_row(board, col) = 0
    /\ \E col \in Cols : get_action_mask(board)[col] = 1 /\ get_next_row(board, col) = 5

\* the number of cells in which two boards differ
CellsChanged(a, b) ==
    Cardinality({cell \in Rows \X Cols :
        a[cell[1]][cell[2]] # b[cell[1]][cell[2]]})

\* C25: one choose_action call makes at most 343 calls of
\* _check_win_from_position, whatever the board and the mask, and no board
\* examined by the two helpers holds more than two hypothetical pieces (the
\* candidate move and one further ply).
C25_WorkBound ==
    /\ Called => probe.checks <= 7 * 7 * 7
    /\ (ProbedWinningMove \/ ProbedDoubleThreat) =>
          /\ probe.checks <= 7 * 7 * 7
          /\ \A i \in 1 .. Len(probe.writes) :
                CellsChanged(probe.writes[i].after, board) <= 2

\* a call that runs all four scans to the end on a board where nothing is
\* found: 7 + 7 + 49 + 49 alignment checks, then the centre preference
C25_Witness ==
    /\ pc = "returned" /\ rule = 5
    /\ probe.checks = 112

\* RandomAgent.choose_action has been called and has come back
ProbedRandomAgent == pc = "probed" /\ probe.op = "random_agent"

\* the mask the RandomAgent goes by: the explicit argument, else the mask of
\* the observation dict, else the columns whose top cell is empty
EffectiveMask ==
    IF probe.mask_arg # << >> THEN probe.mask_arg[1]
    ELSE IF probe.is_dict /\ probe.dict_mask # << >> THEN probe.dict_mask[1]
    ELSE [c \in Cols |-> IF Occupied(board, 0, c) THEN 0 ELSE 1]

\* C26: RandomAgent.choose_action returns a column whose mask entry is
\* nonzero whenever its mask (the explicit one, else the observation dict's,
\* else the one derived from row 0) has a legal column, and raises ValueError
\* without returning a column when the mask has none.
C26_RandomAgentLegal ==
    ProbedRandomAgent =>
        IF \E c \in Cols : EffectiveMask[c] # 0
        THEN /\ probe.kind = "return"
             /\ probe.ret \in Cols
             /\ EffectiveMask[probe.ret] # 0
        ELSE /\ probe.kind = "raise"
             /\ probe.error = "ValueError"
             /\ probe.ret = None

\* no mask handed over on a board with a full column: a column is returned
\* that lies to the right of the full one
C26_Witness ==
    /\ ProbedRandomAgent
    /\ probe.mask_arg = << >> /\ probe.dict_mask = << >>
    /\ probe.kind = "return"
    /\ \E c \in Cols : c < probe.ret /\ EmptyRows(board, c) = {}

\* ------------------------------------------------ C27: tournament ledger
RECURSIVE SumOver(_, _)
SumOver(f, S) ==
    IF S = {} THEN 0
    ELSE LET x == CHOOSE y \in S : TRUE IN f[x] + SumOver(f, S \ {x})

Agents == 0 .. (tour.n_agents - 1)
AllPairs == {p \in Agents \X Agents : p[1] < p[2]}

\* games the seats say agent i won, lost and drew, over all pairs
TrulyWon(i) ==
    SumOver([p \in AllPairs |-> IF p[1] = i THEN tour.truth[p][1]
                                ELSE IF p[2] = i THEN tour.truth[p][2] ELSE 0],
            AllPairs)
TrulyLost(i) ==
    SumOver([p \in AllPairs |-> IF p[1] = i THEN tour.truth[p][2]
                                ELSE IF p[2] = i THEN tour.truth[p][1] ELSE 0],
            AllPairs)
TrulyDrawn(i) ==
    SumOver([p \in AllPairs |-> IF i \in {p[1], p[2]} THEN tour.truth[p][3] ELSE 0],
            AllPairs)

\* C27: when run_tournament returns, every agent's wins + losses + draws is
\* (n_agents - 1) * num_games, the wins of all agents add up to the losses of
\* all agents, every pair has a head_to_head entry that adds up to num_games,
\* and each win, loss and draw stands with the agent that earned it at the
\* seat it was given, whichever agent started the game.
C27_LedgerBalanced ==
    tour.pc = "done" =>
        /\ tour.games_played = Cardinality(AllPairs) * tour.num_games
        /\ \A i \in Agents :
              /\ tour.stats[i].wins + tour.stats[i].losses + tour.stats[i].draws
                     = (tour.n_agents - 1) * tour.num_games
              /\ tour.stats[i].wins = TrulyWon(i)
              /\ tour.stats[i].losses = TrulyLost(i)
              /\ tour.stats[i].draws = TrulyDrawn(i)
        /\ SumOver([i \in Agents |-> tour.stats[i].wins], Agents)
               = SumOver([i \in Agents |-> tour.stats[i].losses], Agents)
        /\ DOMAIN tour.head_to_head = AllPairs
        /\ \A p \in AllPairs :
              /\ tour.head_to_head[p][1] + tour.head_to_head[p][2]
                     + tour.head_to_head[p][3] = tour.num_games
              /\ tour.head_to_head[p] = tour.truth[p]

\* a finished tournament of three agents in which the second-seated agent of a
\* pair won a game it started and one it did not start
C27_Witness ==
    /\ tour.pc = "done"
    /\ tour.n_agents = 3
    /\ tour.num_games = 2
    /\ tour.head_to_head[<<0, 2>>] = <<0, 2, 0>>
    /\ tour.head_to_head[<<1, 2>>] = <<1, 0, 1>>

\* ------------------------------------- C28: the cell itself is never read
\* board b with the two layers of cell (row, col) set to v0 and v1
WithCell(b, row, col, v0, v1) ==
    [b EXCEPT ![row][col] = [ch \in Channels |-> IF ch = 0 THEN v0 ELSE v1]]

\* C28: _check_win_from_position never reads the cell (row, col) itself: for
\* every board, cell and channel the result is the same whatever the two
\* layers hold at (row, col), so it is the same with and without the
\* hypothetical piece placed.
C28_CellItselfNotRead ==
    pc = "idle" =>
        \A row \in Rows, col \in Cols, channel \in Channels :
            \A v0 \in {0, 1}, v1 \in {0, 1} :
                check_win_from_position(WithCell(board, row, col, v0, v1),
                                        row, col, channel)
                    = check_win_from_position(board, row, col, channel)

\* a board with an empty cell that completes four of the mover's pieces, found
\* so before the piece is placed and after
C28_Witness ==
    /\ pc = "idle"
    /\ \E row \in Rows, col \in Cols :
          /\ board[row][col][0] = 0 /\ board[row][col][1] = 0
          /\ check_win_from_position(board, row, col, 0)
          /\ check_win_from_position(WithCell(board, row, col, 1, 0), row, col, 0)
          /\ ~check_win_from_position(board, row, col, 1)

\* ------------------------------------------------ C29: channel symmetry
\* the board with its two occupancy layers exchanged
swap(b) ==
    [row \in Rows |-> [col \in Cols |-> [ch \in Channels |-> b[row][col][1 - ch]]]]

\* C29: the analysis treats both channels identically: _find_winning_move on
\* board B for one channel returns what it returns on swap(B) for the other
\* channel with the same legal list, and _creates_double_threat on B for a
\* column and one channel returns what it returns on swap(B) for the same
\* column and the other channel.
C29_ChannelSymmetry ==
    /\ (pc = "probed" /\ probe.op = "find_winning_move") =>
          probe.ret = find_winning_move(Memory(swap(board)), "observation",
                                        probe.valid_actions, 1 - probe.channel).ret
    /\ (pc = "probed" /\ probe.op = "creates_double_threat") =>
          probe.ret = creates_double_threat(Memory(swap(board)), "observation",
                                            probe.col, 1 - probe.channel).ret

\* a double threat of the opponent found on a board where the same column
\* is none for the mover
C29_Witness ==
    /\ pc = "probed" /\ probe.op = "creates_double_threat"
    /\ probe.channel = 1
    /\ probe.ret = TRUE
    /\ swap(board) # board
    /\ creates_double_threat(Memory(board), "observation", probe.col, 0).ret = FALSE

\* ------------------------------------ C30: hypothetical boards well-formed
\* no cell of b is set in both layers
WellFormed(b) ==
    \A row \in Rows, col \in Cols : ~(b[row][col][0] = 1 /\ b[row][col][1] = 1)

\* the board the i-th private copy of the probed helper was taken from: the
\* caller's board for the first ply, the first-ply board for the second ply
CopiedFrom(i) ==
    IF ProbedDoubleThreat /\ i > 1 THEN probe.board_copy ELSE board

\* C30: given a board with no cell set in both layers, each private copy built
\* by _find_winning_move and _creates_double_threat (first and second ply)
\* differs from the board it was copied from in exactly one cell, the landing
\* cell of the candidate column, which was empty in both layers, and holds
\* there the piece of the channel asked for; so no hypothetical board has a
\* cell with both layers set.
C30_HypotheticalBoardsWellFormed ==
    ((ProbedWinningMove \/ ProbedDoubleThreat) /\ WellFormed(board)) =>
        \A i \in 1 .. Len(probe.writes) :
            LET w == probe.writes[i]
                from == CopiedFrom(i)
            IN /\ EmptyRows(from, w.col) # {}
               /\ ~Occupied(from, LandingRow(from, w.col), w.col)
               /\ CellsChanged(w.after, from) = 1
               /\ w.after = Drop(from, w.col, probe.channel)
               /\ WellFormed(w.after)

\* a double-threat probe whose second ply lands on top of the first-ply piece
C30_Witness ==
    /\ ProbedDoubleThreat
    /\ WellFormed(board)
    /\ \E i \in 2 .. Len(probe.writes) :
          /\ probe.writes[i].ref = "board_copy2"
          /\ probe.writes[i].col = probe.col
          /\ probe.writes[i].row = probe.writes[1].row - 1
          /\ Occupied(board, 5, probe.col)

====
